---- MODULE Spec2Model ----
(***************************************************************************)
(* Model of compute_exponential_sums.py: the sieve, the filter of primes   *)
(* p = 1 (mod 47), the evaluation loop, the statistics step and the CSV    *)
(* persistence of main(), and the residue loop of compute_expsum.          *)
(*                                                                         *)
(* Magnitudes are double-precision values in the program.  The model       *)
(* carries them as integers in units of 10^-7 and does not compute the     *)
(* trigonometric sum: the magnitude of a record is a choice among a few    *)
(* values allowed by |S_p| <= p (a sum of p unit vectors).  The re and im  *)
(* fields of a record are not carried.                                     *)
(***************************************************************************)
EXTENDS Integers, Sequences, FiniteSets, TLC

VARIABLES bound, pc, primes, eff_primes, idx, results, stats, file, err,
          ep, en, ehist

vars == <<bound, pc, primes, eff_primes, idx, results, stats, file, err,
          ep, en, ehist>>

mainVars == <<bound, pc, primes, eff_primes, idx, results, stats, file, err>>
expVars == <<ep, en, ehist>>

----------------------------------------------------------------------------
(* Bounds of the model *)

MaxN == 100
MaxNeg == 3
MaxSmallP == 13

(* Program constants *)
Modulus == 47
Exponent == 47
Outlier == 283

Unit == 10^7

NoStats == [done |-> 0, n |-> 0, mean |-> 0, max |-> 0, max_p |-> 0,
            mean_ex |-> 0, max_ex |-> 0]
NoFile == [opened |-> FALSE, header |-> <<>>, rows |-> <<>>]
NoErr == [kind |-> "none", line |-> 0]

Range(s) == {s[k] : k \in 1..Len(s)}

----------------------------------------------------------------------------
(* sieve_primes *)

RECURSIVE ISqrtFrom(_, _)
ISqrtFrom(n, r) == IF (r + 1) * (r + 1) > n THEN r ELSE ISqrtFrom(n, r + 1)

\* int(n**0.5) for n >= 0
ISqrt(n) == ISqrtFrom(n, 0)

\* marking that starts one multiple late, at i*i + i
MarkMultiplesLate(is_prime, i, n) ==
    [k \in 0..n |-> IF k >= i * i + i /\ (k - i * i) % i = 0 THEN FALSE
                    ELSE is_prime[k]]

\* for j in range(i*i, n+1, i): is_prime[j] = False
MarkMultiples(is_prime, i, n) ==
    [k \in 0..n |-> IF k >= i * i /\ (k - i * i) % i = 0 THEN FALSE
                    ELSE is_prime[k]]

RECURSIVE SieveLoop(_, _, _)
\* for i in range(2, int(n**0.5) + 1): if is_prime[i]: ...
SieveLoop(is_prime, i, n) ==
    IF i > ISqrt(n) THEN is_prime
    ELSE SieveLoop(IF is_prime[i] THEN MarkMultiples(is_prime, i, n)
                   ELSE is_prime, i + 1, n)

RECURSIVE Collect(_, _, _)
\* [i for i in range(lo, hi + 1) if is_prime[i]], the range split in halves
Collect(is_prime, lo, hi) ==
    IF lo > hi THEN <<>>
    ELSE IF lo = hi THEN (IF is_prime[lo] THEN <<lo>> ELSE <<>>)
    ELSE LET mid == (lo + hi) \div 2
         IN  Collect(is_prime, lo, mid) \o Collect(is_prime, mid + 1, hi)

\* [True] * (n + 1) has max(n + 1, 0) elements
ListLen(n) == IF n + 1 > 0 THEN n + 1 ELSE 0

\* is_prime[0] = is_prime[1] = False raises IndexError on a list shorter than 2
SieveRaises(n) == ListLen(n) < 2

sieve_primes(n) ==
    LET init == [k \in 0..n |-> k >= 2]
    IN  Collect(SieveLoop(init, 2, n), 2, n)

----------------------------------------------------------------------------
(* compute_expsum *)

RECURSIVE ModPow(_, _, _)
\* pow(b, e, m): square and multiply, reduced at every step
ModPow(b, e, m) ==
    IF e = 0 THEN 1 % m
    ELSE LET h == ModPow(b, e \div 2, m)
             sq == (h * h) % m
         IN  IF e % 2 = 1 THEN (sq * b) % m ELSE sq

\* the second base left unreduced
OperandsUnreduced(n, p) == <<n, n - 1>>

\* the bases of the two pow calls of line 39: n and (n - 1) % p
Operands(n, p) == <<n, (n - 1) % p>>

\* val = (pow(n, 47, p) - pow((n - 1) % p, 47, p)) % p
Residue(ops, p) ==
    (ModPow(ops[1], Exponent, p) - ModPow(ops[2], Exponent, p)) % p

\* lines 38-41, one iteration: S += exp(2*pi*i*val/p); the history keeps
\* the terms of S in the order they are added
ExpStep ==
    /\ pc = "exp_loop"
    /\ en < ep
    /\ LET ops == Operands(en, ep)
       IN  ehist' = Append(ehist, [n |-> en, ops |-> ops,
                                   val |-> Residue(ops, ep)])
    /\ en' = en + 1
    /\ UNCHANGED ep
    /\ UNCHANGED mainVars

\* line 42
ExpReturn ==
    /\ pc = "exp_loop"
    /\ en >= ep
    /\ pc' = "exp_ret"
    /\ UNCHANGED <<bound, primes, eff_primes, idx, results, stats, file, err>>
    /\ UNCHANGED expVars

----------------------------------------------------------------------------
(* main: sieve, filter, evaluation loop *)

\* the congruence tested without the shift by one
IsMultiple(p) == p % Modulus = 0

\* (p - 1) % 47 == 0
IsEffective(p) == (p - 1) % Modulus = 0

RECURSIVE FilterRange(_, _, _)
\* [p for p in ps[lo..hi] if (p - 1) % 47 == 0], the range split in halves
FilterRange(ps, lo, hi) ==
    IF lo > hi THEN <<>>
    ELSE IF lo = hi THEN (IF IsEffective(ps[lo]) THEN <<ps[lo]>> ELSE <<>>)
    ELSE LET mid == (lo + hi) \div 2
         IN  FilterRange(ps, lo, mid) \o FilterRange(ps, mid + 1, hi)

\* the filter that stops one element short
FilterPrimesShort(ps) == FilterRange(ps, 1, Len(ps) - 1)

\* [p for p in primes if (p - 1) % 47 == 0]
FilterPrimes(ps) == FilterRange(ps, 1, Len(ps))

\* a range line that tolerates the empty list
RangeNeverRaises(eff) == FALSE

\* eff_primes[0] and eff_primes[-1] raise IndexError on an empty list
RangeRaises(eff) == Len(eff) = 0

\* the magnitudes abs(S / sqrt(p)) the model distinguishes, in units of
\* 10^-7; |S| <= p bounds the magnitude by sqrt(p)
MagValues == {12345678, 125000004, 470000005}
MagOutcomes(p) == {m \in MagValues : (m \div Unit) * (m \div Unit) <= p}

\* the record stored over the last one instead of appended
OverwriteResult(rs, rec) ==
    IF Len(rs) = 0 THEN <<rec>> ELSE [rs EXCEPT ![Len(rs)] = rec]

\* results.append({...})
AppendResult(rs, rec) == Append(rs, rec)

Raise(kind, line) ==
    /\ pc' = "error"
    /\ err' = [kind |-> kind, line |-> line]

\* line 52
Sieve ==
    /\ pc = "sieve"
    /\ IF SieveRaises(bound)
       THEN /\ Raise("IndexError", 27)
            /\ UNCHANGED primes
       ELSE /\ primes' = sieve_primes(bound)
            /\ pc' = "filter"
            /\ UNCHANGED err
    /\ UNCHANGED <<bound, eff_primes, idx, results, stats, file>>
    /\ UNCHANGED expVars

\* line 53
Filter ==
    /\ pc = "filter"
    /\ eff_primes' = FilterPrimes(primes)
    /\ pc' = "range"
    /\ UNCHANGED <<bound, primes, idx, results, stats, file, err>>
    /\ UNCHANGED expVars

\* lines 54-58
PrintRange ==
    /\ pc = "range"
    /\ IF RangeRaises(eff_primes)
       THEN /\ Raise("IndexError", 55)
            /\ UNCHANGED <<idx, results>>
       ELSE /\ results' = <<>>
            /\ idx' = 0
            /\ pc' = "eval"
            /\ UNCHANGED err
    /\ UNCHANGED <<bound, primes, eff_primes, stats, file>>
    /\ UNCHANGED expVars

\* lines 59-71, one iteration
Eval ==
    /\ pc = "eval"
    /\ idx < Len(eff_primes)
    /\ \E mag \in MagOutcomes(eff_primes[idx + 1]) :
          results' = AppendResult(results,
                                  [p |-> eff_primes[idx + 1], mag |-> mag])
    /\ idx' = idx + 1
    /\ UNCHANGED <<bound, pc, primes, eff_primes, stats, file, err>>
    /\ UNCHANGED expVars

\* the loop of line 59 is exhausted
EvalEnd ==
    /\ pc = "eval"
    /\ idx >= Len(eff_primes)
    /\ pc' = "stats"
    /\ UNCHANGED <<bound, primes, eff_primes, idx, results, stats, file, err>>
    /\ UNCHANGED expVars

----------------------------------------------------------------------------
(* main: statistics *)

RECURSIVE MagsFrom(_, _)
\* [r['mag'] for r in results]
MagsFrom(rs, k) ==
    IF k > Len(rs) THEN <<>> ELSE <<rs[k].mag>> \o MagsFrom(rs, k + 1)

\* the exclusion aimed at another prime
KeepInExOther(r) == r.p # 659

\* r['p'] != 283
KeepInEx(r) == r.p # Outlier

RECURSIVE MagsExFrom(_, _)
\* [r['mag'] for r in results if r['p'] != 283]
MagsExFrom(rs, k) ==
    IF k > Len(rs) THEN <<>>
    ELSE (IF KeepInEx(rs[k]) THEN <<rs[k].mag>> ELSE <<>>)
         \o MagsExFrom(rs, k + 1)

RECURSIVE SumSeq(_)
SumSeq(s) == IF Len(s) = 0 THEN 0 ELSE s[1] + SumSeq(Tail(s))

RECURSIVE MaxSeq(_)
\* max(mags), for a non-empty list
MaxSeq(s) ==
    IF Len(s) = 1 THEN s[1]
    ELSE LET m == MaxSeq(Tail(s)) IN IF s[1] >= m THEN s[1] ELSE m

\* mags.index(v): the first position holding v, counted from 0
IndexOf(s, v) == (CHOOSE k \in 1..Len(s) :
                     s[k] = v /\ \A j \in 1..(k - 1) : s[j] # v) - 1

\* sum(mags) / len(mags), in units of 10^-7
Mean(s) == SumSeq(s) \div Len(s)

\* lines 73-82
Stats ==
    /\ pc = "stats"
    /\ LET mags == MagsFrom(results, 1)
       IN  IF Len(mags) = 0
           THEN /\ Raise("ValueError", 74)
                /\ UNCHANGED stats
           ELSE /\ stats' = [stats EXCEPT
                               !.done = 1,
                               !.n = Len(results),
                               !.mean = Mean(mags),
                               !.max = MaxSeq(mags),
                               !.max_p = results[IndexOf(mags, MaxSeq(mags)) + 1].p]
                /\ pc' = "stats_ex"
                /\ UNCHANGED err
    /\ UNCHANGED <<bound, primes, eff_primes, idx, results, file>>
    /\ UNCHANGED expVars

\* lines 84-92
StatsEx ==
    /\ pc = "stats_ex"
    /\ LET mags_ex == MagsExFrom(results, 1)
       IN  IF Len(mags_ex) = 0
           THEN /\ Raise("ZeroDivisionError", 85)
                /\ UNCHANGED stats
           ELSE /\ stats' = [stats EXCEPT
                               !.done = 2,
                               !.mean_ex = Mean(mags_ex),
                               !.max_ex = MaxSeq(mags_ex)]
                /\ pc' = "open"
                /\ UNCHANGED err
    /\ UNCHANGED <<bound, primes, eff_primes, idx, results, file>>
    /\ UNCHANGED expVars

----------------------------------------------------------------------------
(* main: persistence *)

Header == <<"prime_p", "Re_Sp_over_sqrtp", "Im_Sp_over_sqrtp", "magnitude">>

\* f"{x:.6f}": a value in units of 10^-7 rounded to units of 10^-6
Fmt6(m) == (m + 5) \div 10

\* [r['p'], ..., f"{r['mag']:.6f}"]
RowOf(r) == [prime_p |-> r.p, magnitude |-> Fmt6(r.mag)]

\* the rows written from the last record backwards
NextRecordReversed(rs, k) == rs[Len(rs) - k]

\* the record the loop of line 100 writes after k rows
NextRecord(rs, k) == rs[k + 1]

\* lines 95-99
Open ==
    /\ pc = "open"
    /\ file' = [opened |-> TRUE, header |-> Header, rows |-> <<>>]
    /\ pc' = "write"
    /\ UNCHANGED <<bound, primes, eff_primes, idx, results, stats, err>>
    /\ UNCHANGED expVars

\* os.makedirs or open of lines 95-96 fails
OpenFail ==
    /\ pc = "open"
    /\ Raise("OSError", 96)
    /\ UNCHANGED <<bound, primes, eff_primes, idx, results, stats, file>>
    /\ UNCHANGED expVars

\* lines 100-102, one iteration
WriteRow ==
    /\ pc = "write"
    /\ Len(file.rows) < Len(results)
    /\ file' = [file EXCEPT
                  !.rows = Append(@, RowOf(NextRecord(results, Len(@))))]
    /\ UNCHANGED <<bound, pc, primes, eff_primes, idx, results, stats, err>>
    /\ UNCHANGED expVars

\* a write of lines 100-102 fails
WriteFail ==
    /\ pc = "write"
    /\ Len(file.rows) < Len(results)
    /\ Raise("OSError", 101)
    /\ UNCHANGED <<bound, primes, eff_primes, idx, results, stats, file>>
    /\ UNCHANGED expVars

\* lines 103-104
Close ==
    /\ pc = "write"
    /\ Len(file.rows) >= Len(results)
    /\ pc' = "done"
    /\ UNCHANGED <<bound, primes, eff_primes, idx, results, stats, file, err>>
    /\ UNCHANGED expVars

----------------------------------------------------------------------------
(* The run of main for a bound *)

Bounds == {0 - 1, 0, 1, 2, 30, 282, 283, 300, 658, 659, 1000, 2351}

IdleExp == ep = 0 /\ en = 0 /\ ehist = <<>>

Init ==
    /\ bound \in Bounds
    /\ pc = "sieve"
    /\ primes = <<>>
    /\ eff_primes = <<>>
    /\ idx = 0
    /\ results = <<>>
    /\ stats = NoStats
    /\ file = NoFile
    /\ err = NoErr
    /\ IdleExp

Next ==
    \/ Sieve
    \/ Filter
    \/ PrintRange
    \/ Eval
    \/ EvalEnd
    \/ Stats
    \/ StatsEx
    \/ Open
    \/ OpenFail
    \/ WriteRow
    \/ WriteFail
    \/ Close

Spec == Init /\ [][Next]_vars

----------------------------------------------------------------------------
(* sieve_primes alone, over a range of bounds *)

SieveInputs == (0 - MaxNeg)..MaxN

InitSieve ==
    /\ bound \in SieveInputs
    /\ pc = "sieve"
    /\ primes = <<>>
    /\ eff_primes = <<>>
    /\ idx = 0
    /\ results = <<>>
    /\ stats = NoStats
    /\ file = NoFile
    /\ err = NoErr
    /\ IdleExp

NextSieve == Sieve

SpecSieve == InitSieve /\ [][NextSieve]_vars

----------------------------------------------------------------------------
(* compute_expsum alone, over the small primes and the first effective one *)

ExpInputs == Range(sieve_primes(MaxSmallP)) \cup {Outlier}

InitExp ==
    /\ ep \in ExpInputs
    /\ en = 0
    /\ ehist = <<>>
    /\ bound = 0
    /\ pc = "exp_loop"
    /\ primes = <<>>
    /\ eff_primes = <<>>
    /\ idx = 0
    /\ results = <<>>
    /\ stats = NoStats
    /\ file = NoFile
    /\ err = NoErr

NextExp == ExpStep \/ ExpReturn

SpecExp == InitExp /\ [][NextExp]_vars

----------------------------------------------------------------------------
(* The statistics step alone, over the result tables of the non-empty      *)
(* ascending lists of effective primes drawn from StatPool                 *)

StatPool == {283, 659, 941, 2351}

RECURSIVE SortedSeq(_)
SortedSeq(S) ==
    IF S = {} THEN <<>>
    ELSE LET m == CHOOSE x \in S : \A y \in S : x <= y
         IN  <<m>> \o SortedSeq(S \ {m})

TablesOver(ps) ==
    {t \in [1..Len(ps) -> [p : Range(ps), mag : MagValues]] :
        \A k \in 1..Len(ps) :
            t[k].p = ps[k] /\ t[k].mag \in MagOutcomes(ps[k])}

InitStats ==
    /\ \E S \in (SUBSET StatPool) \ {{}} :
          /\ eff_primes = SortedSeq(S)
          /\ primes = SortedSeq(S)
          /\ bound = CHOOSE x \in S : \A y \in S : y <= x
          /\ idx = Cardinality(S)
          /\ results \in TablesOver(SortedSeq(S))
    /\ pc = "stats"
    /\ stats = NoStats
    /\ file = NoFile
    /\ err = NoErr
    /\ IdleExp

NextStats == Stats \/ StatsEx

SpecStats == InitStats /\ [][NextStats]_vars

----------------------------------------------------------------------------
(* Properties *)

StrictlyAscending(s) == \A k \in 1..(Len(s) - 1) : s[k] < s[k + 1]

NoDivisor(q) == \A d \in 2..(q - 1) : q % d # 0

\* the sieve of line 52 has returned
SieveReturned == pc # "sieve" /\ ~(pc = "error" /\ err.line = 27)

\* the filter of line 53 has run
Filtered == SieveReturned /\ pc # "filter"

\* C1: for every bound N >= 2, sieve_primes(N) returns without error exactly
\* the primes of [2, N], each once, in ascending order; N = 30 gives
\* 2, 3, 5, 7, 11, 13, 17, 19, 23, 29.
C1_SievePrimes ==
    (bound >= 2 /\ pc # "sieve") =>
        /\ pc = "filter"
        /\ err = NoErr
        /\ StrictlyAscending(primes)
        /\ Range(primes) = {q \in 2..bound : NoDivisor(q)}
        /\ (bound = 30 => primes = <<2, 3, 5, 7, 11, 13, 17, 19, 23, 29>>)

C1_Witness == bound = 30 /\ pc = "filter" /\ Len(primes) = 10

\* C2: for every bound N < 2 (1, 0 and the negative ones), sieve_primes(N)
\* returns the empty sequence and raises no error.
C2_EmptyBelowTwo ==
    (bound < 2 /\ pc # "sieve") =>
        /\ pc = "filter"
        /\ err = NoErr
        /\ primes = <<>>

\* C3, as stated: with bound = 1000 the effective primes are exactly {283},
\* the run raises no error of its own and the table persisted has exactly
\* one data row, of prime 283.
C3_OnlyOutlier ==
    bound = 1000 =>
        /\ Filtered => eff_primes = <<283>>
        /\ pc = "error" => err.kind = "OSError"
        /\ pc = "done" => /\ Len(file.rows) = 1
                          /\ file.rows[1].prime_p = 283

\* C3, amended: with bound = 1000 the effective primes are exactly
\* 283, 659, 941, the run raises no error of its own and the table persisted
\* has exactly three data rows, of primes 283, 659, 941 in this order.
C3_ThreePrimes ==
    bound = 1000 =>
        /\ Filtered => eff_primes = <<283, 659, 941>>
        /\ pc = "error" => err.kind = "OSError"
        /\ pc = "done" => /\ Len(file.rows) = 3
                          /\ file.rows[1].prime_p = 283
                          /\ file.rows[2].prime_p = 659
                          /\ file.rows[3].prime_p = 941

C3_Witness == bound = 1000 /\ pc = "done" /\ Len(file.rows) = 3

\* C4: when the effective-prime list is empty, the run ends in an error
\* raised before the evaluation loop: no call of compute_expsum has added a
\* record, no statistics are computed, no table is written, and the run
\* never finishes normally.
C4_EmptyIsError ==
    (Filtered /\ Len(eff_primes) = 0) =>
        /\ pc \in {"range", "error"}
        /\ pc = "error" => err.line < 59
        /\ results = <<>>
        /\ stats = NoStats
        /\ file = NoFile

C4_Witness ==
    /\ bound \in 2..282
    /\ pc = "error"
    /\ err = [kind |-> "IndexError", line |-> 55]
    /\ eff_primes = <<>>

C6_AbsentOutlier ==
    (\A k \in 1..Len(results) : results[k].p # 283) =>
        /\ pc # "error"
        /\ pc \notin {"stats", "stats_ex"} =>
              /\ stats.done = 2
              /\ stats.mean_ex = stats.mean
              /\ stats.max_ex = stats.max

C6_Witness ==
    /\ pc = "open"
    /\ Len(results) >= 2
    /\ \A k \in 1..Len(results) : results[k].p # 283
    /\ stats.done = 2
    /\ stats.max > stats.mean

\* C7: the filter keeps exactly the primes p of the sieve output with
\* (p - 1) mod 47 = 0, in ascending order and without repetition; for the
\* primes up to 300 it yields exactly 283.
C7_Filter ==
    Filtered =>
        /\ Range(eff_primes) = {q \in Range(primes) : (q - 1) % 47 = 0}
        /\ StrictlyAscending(eff_primes)
        /\ (bound = 300 => eff_primes = <<283>>)

C7_Witness == bound = 300 /\ pc = "eval" /\ eff_primes = <<283>>

\* C8: on a run that completes, the table is the header followed by one row
\* per effective prime, row i carrying the i-th effective prime, in strictly
\* ascending order of prime_p.
C8_TableRows ==
    pc = "done" =>
        /\ file.opened
        /\ file.header = Header
        /\ Len(file.rows) = Len(eff_primes)
        /\ \A i \in 1..Len(file.rows) : file.rows[i].prime_p = eff_primes[i]
        /\ \A i \in 1..(Len(file.rows) - 1) :
              file.rows[i].prime_p < file.rows[i + 1].prime_p
        /\ \A i \in 1..Len(file.rows) :
              (file.rows[i].prime_p - 1) % 47 = 0

C8_Witness == pc = "done" /\ bound = 2351 /\ Len(file.rows) = 9

RECURSIVE RefPow(_, _, _)
\* b^e mod m by e successive multiplications
RefPow(b, e, m) == IF e = 0 THEN 1 % m ELSE (b * RefPow(b, e - 1, m)) % m

\* C9: compute_expsum(p) visits n = 0, 1, ..., p-1 in ascending order, once
\* each; both bases of the exponentiation lie in [0, p-1], with p-1 for
\* n = 0; the residue is (n^47 - (n-1)^47) mod p and lies in [0, p-1].
C9_Residues ==
    pc \in {"exp_loop", "exp_ret"} =>
        /\ Len(ehist) = en
        /\ en <= ep
        /\ pc = "exp_ret" => en = ep
        /\ \A k \in 1..Len(ehist) :
              /\ ehist[k].n = k - 1
              /\ ehist[k].ops[1] = k - 1
              /\ ehist[k].ops[2] = (IF k = 1 THEN ep - 1 ELSE k - 2)
              /\ ehist[k].ops[1] \in 0..(ep - 1)
              /\ ehist[k].ops[2] \in 0..(ep - 1)
              /\ ehist[k].val \in 0..(ep - 1)
              /\ ehist[k].val =
                    (RefPow(k - 1, 47, ep) - RefPow(k - 2, 47, ep)) % ep

C9_Witness == pc = "exp_ret" /\ ep = 283 /\ Len(ehist) = 283

\* a failure of the program itself, not of the operating system on writing
OwnFailure == pc = "error" /\ err.kind # "OSError"

\* C10: the table is opened only after every effective prime is evaluated
\* and the statistics are complete; a failure in sieving, filtering,
\* evaluation or statistics leaves no table; the table is opened once and
\* only grows; a result record never changes after it is appended.
C10_WriteOnce ==
    /\ [](file.opened => /\ stats.done = 2
                         /\ Len(results) = Len(eff_primes)
                         /\ pc \in {"write", "done", "error"})
    /\ [](OwnFailure => file = NoFile)
    /\ [][/\ Len(results') >= Len(results)
          /\ \A k \in 1..Len(results) : results'[k] = results[k]
          /\ file.opened =>
                /\ file'.opened
                /\ file'.header = file.header
                /\ Len(file'.rows) >= Len(file.rows)
                /\ \A k \in 1..Len(file.rows) :
                      file'.rows[k] = file.rows[k]]_vars

C10_Witness ==
    /\ pc = "error"
    /\ err = [kind |-> "ZeroDivisionError", line |-> 85]
    /\ Len(results) = 1
    /\ file = NoFile

====
